---- MODULE Spec2Model ----
(***************************************************************************)
(* A model of ocspchecker (main.go): the AIA decoder, the OCSP response    *)
(* interpreter and the two revocation-check scenarios driven by main.      *)
(*                                                                         *)
(* Go strings and byte slices are sequences of octets, 0..255.  A nil      *)
(* slice and an empty slice are distinguished where the code distinguishes *)
(* them (the staple).                                                      *)
(***************************************************************************)
EXTENDS Integers, Sequences, FiniteSets, TLC

(***************************************************************************)
(* Part 1.  encoding/asn1 as used by decodeAIA.                            *)
(***************************************************************************)

\* The object identifiers of main.go, as the integer arcs Go holds.
authorityInfoAccess == <<1, 3, 6, 1, 5, 5, 7, 1, 1>>
aiaOCSP == <<1, 3, 6, 1, 5, 5, 7, 48, 1>>
aiaIssuer == <<1, 3, 6, 1, 5, 5, 7, 48, 2>>

\* Error values of decodeAIA (the message prefixes of the source).
ErrNone == "nil"
ErrUnmarshal == "Error unmarshaling"
ErrTrailingExt == "x509: trailing data after X.509 extension"
ErrTrailingAIA == "x509: trailing data after AIA extension"
ErrBadSeq == "bad SAN sequence"
ErrUnknownType == "Unknown type for AIA Issuer extension"

\* bytes[n:] of Go: the sequence without its first n octets.
Drop(bytes, n) == SubSeq(bytes, n + 1, Len(bytes))

\* asn1.parseBase128Int: a big-endian base-128 integer starting after
\* `offset` octets.  Result: ok, the value, the offset after it.
RECURSIVE parseBase128Int(_, _, _, _)
parseBase128Int(bytes, offset, acc, shifted) ==
  IF offset >= Len(bytes) THEN [ok |-> FALSE, val |-> 0, off |-> offset]
  ELSE IF shifted = 5 THEN [ok |-> FALSE, val |-> 0, off |-> offset]
  ELSE LET b == bytes[offset + 1]
           v == acc * 128 + (b % 128)
       IN IF shifted = 0 /\ b = 128 THEN [ok |-> FALSE, val |-> 0, off |-> offset]
          ELSE IF b < 128
               THEN [ok |-> v <= 2147483647, val |-> v, off |-> offset + 1]
               ELSE parseBase128Int(bytes, offset + 1, v, shifted + 1)

\* The big-endian value of the length octets of the long form.
RECURSIVE lengthValue(_, _)
lengthValue(octets, acc) ==
  IF octets = <<>> THEN acc
  ELSE lengthValue(Tail(octets), acc * 256 + Head(octets))

\* asn1.parseTagAndLength followed by the bounds check of parseField:
\* one tag-length-value triple at the head of `bytes` and what follows it.
RawNone == [ok |-> FALSE, Class |-> 0, Tag |-> 0, IsCompound |-> FALSE,
            Bytes |-> <<>>, rest |-> <<>>]

\* The value found once the content is known to start after `start` octets
\* and to be `length` octets long.
tlvValue(bytes, id, tag, start, length) ==
  IF start + length > Len(bytes) THEN RawNone
  ELSE [ok |-> TRUE, Class |-> id \div 64, Tag |-> tag,
        IsCompound |-> ((id \div 32) % 2) = 1,
        Bytes |-> SubSeq(bytes, start + 1, start + length),
        rest |-> Drop(bytes, start + length)]

\* The long form of the length: n length octets after the octet at `off`;
\* no indefinite length, no leading zero, no value the short form holds.
tlvLongLength(bytes, id, tag, off, n) ==
  IF n = 0 \/ n > 4 \/ off + 1 + n > Len(bytes) THEN RawNone
  ELSE IF bytes[off + 2] = 0 THEN RawNone
  ELSE IF lengthValue(SubSeq(bytes, off + 2, off + 1 + n), 0) < 128 THEN RawNone
  ELSE tlvValue(bytes, id, tag, off + 1 + n,
                lengthValue(SubSeq(bytes, off + 2, off + 1 + n), 0))

\* The length octets, which start after `off` octets.
tlvLength(bytes, id, tag, off) ==
  IF off >= Len(bytes) THEN RawNone
  ELSE IF bytes[off + 1] < 128
  THEN tlvValue(bytes, id, tag, off + 1, bytes[off + 1])
  ELSE tlvLongLength(bytes, id, tag, off, bytes[off + 1] % 128)

\* The high-tag-number form: the tag follows the identifier octet in base
\* 128 and must not be one the low form holds.
tlvHighTag(bytes, id, high) ==
  IF ~high.ok \/ high.val < 31 THEN RawNone
  ELSE tlvLength(bytes, id, high.val, high.off)

parseTLV(bytes) ==
  IF Len(bytes) < 2 THEN RawNone
  ELSE IF bytes[1] % 32 = 31
  THEN tlvHighTag(bytes, bytes[1], parseBase128Int(bytes, 1, 0, 0))
  ELSE tlvLength(bytes, bytes[1], bytes[1] % 32, 1)

\* asn1.Unmarshal(b, &raw) for raw of type asn1.RawValue.
UnmarshalRaw(bytes) == parseTLV(bytes)

\* asn1.parseObjectIdentifier: the arcs of an OID's content octets.
OIDNone == [ok |-> FALSE, arcs |-> <<>>, rest |-> <<>>]

RECURSIVE oidArcs(_, _, _)
oidNext(bytes, acc, p) ==
  IF ~p.ok THEN OIDNone ELSE oidArcs(bytes, p.off, Append(acc, p.val))

oidArcs(bytes, offset, acc) ==
  IF offset >= Len(bytes) THEN [ok |-> TRUE, arcs |-> acc, rest |-> <<>>]
  ELSE oidNext(bytes, acc, parseBase128Int(bytes, offset, 0, 0))

oidFirst(bytes, p) ==
  IF ~p.ok THEN OIDNone
  ELSE IF p.val < 80
  THEN oidArcs(bytes, p.off, <<p.val \div 40, p.val % 40>>)
  ELSE oidArcs(bytes, p.off, <<2, p.val - 80>>)

parseObjectIdentifier(bytes) ==
  IF bytes = <<>> THEN OIDNone
  ELSE oidFirst(bytes, parseBase128Int(bytes, 0, 0, 0))

\* asn1.Unmarshal(b, &oid) for oid of type asn1.ObjectIdentifier: the
\* element must be a universal, primitive OBJECT IDENTIFIER (tag 6).
oidOfContent(t, o) ==
  IF ~o.ok THEN OIDNone
  ELSE [ok |-> TRUE, arcs |-> o.arcs, rest |-> t.rest]

oidOfValue(t) ==
  IF ~t.ok \/ t.Class # 0 \/ t.Tag # 6 \/ t.IsCompound THEN OIDNone
  ELSE oidOfContent(t, parseObjectIdentifier(t.Bytes))

UnmarshalOID(bytes) == oidOfValue(parseTLV(bytes))

(***************************************************************************)
(* Part 2.  decodeAIA.                                                     *)
(***************************************************************************)

AIAResult(url, err) == [url |-> url, err |-> err]

\* `case 6` of the switch on extensionData.Tag.
IsURITag(raw) == raw.Tag = 6

\* The loop `for len(rest) > 0`, one AccessDescription per turn.
RECURSIVE decodeAIALoop(_)

\* From the second asn1.Unmarshal of the loop body on: `rest` is what
\* follows the AccessDescription in the outer sequence.
aiaLocation(rest, oidValue, extensionData) ==
  IF ~extensionData.ok THEN AIAResult(<<>>, ErrUnmarshal)
  ELSE IF Len(extensionData.rest) # 0 THEN AIAResult(<<>>, ErrTrailingAIA)
  ELSE IF oidValue.arcs = aiaIssuer
  THEN IF IsURITag(extensionData)
       THEN AIAResult(extensionData.Bytes, ErrNone)
       ELSE AIAResult(<<>>, ErrUnknownType)
  ELSE decodeAIALoop(rest)

aiaMethod(rest, oidValue) ==
  IF ~oidValue.ok THEN AIAResult(<<>>, ErrUnmarshal)
  ELSE aiaLocation(rest, oidValue, UnmarshalRaw(oidValue.rest))

aiaDescription(inside) ==
  IF ~inside.ok THEN AIAResult(<<>>, ErrUnmarshal)
  ELSE IF ~inside.IsCompound \/ inside.Tag # 16 \/ inside.Class # 0
  THEN AIAResult(<<>>, ErrBadSeq)
  ELSE aiaMethod(inside.rest, UnmarshalOID(inside.Bytes))

decodeAIALoop(rest) ==
  IF Len(rest) = 0 THEN AIAResult(<<>>, ErrNone)
  ELSE aiaDescription(UnmarshalRaw(rest))

aiaSequence(seq) ==
  IF ~seq.ok THEN AIAResult(<<>>, ErrUnmarshal)
  ELSE IF Len(seq.rest) # 0 THEN AIAResult(<<>>, ErrTrailingExt)
  ELSE IF ~seq.IsCompound \/ seq.Tag # 16 \/ seq.Class # 0
  THEN AIAResult(<<>>, ErrBadSeq)
  ELSE decodeAIALoop(seq.Bytes)

decodeAIA(ext) == aiaSequence(UnmarshalRaw(ext))

(***************************************************************************)
(* Part 3.  The values the program works on.                               *)
(***************************************************************************)

\* Go strings, as octets.
StrHttps == <<104, 116, 116, 112, 115>>             \* "https"
StrHttpsURL == StrHttps \o <<58, 47, 47, 97>>       \* "https://a"
StrHttpURL == <<104, 116, 116, 112, 58, 47, 47, 97>>    \* "http://a"
StrPath == <<99, 46, 112, 101, 109>>                \* "c.pem"
StrResponder == <<104, 58, 114>>                    \* "h:r"
StrCtl == <<104, 58, 1>>                            \* "h:\x01"
StrOcsp1 == <<104, 58, 111>>                        \* "h:o"
StrOcsp2 == <<104, 58, 112>>                        \* "h:p"
StrIssuer1 == <<104, 58, 105>>                      \* "h:i"
StrIssuer2 == <<104, 58, 106>>                      \* "h:j"

\* strings.HasPrefix.
HasPrefix(s, prefix) ==
  Len(s) >= Len(prefix) /\ SubSeq(s, 1, Len(prefix)) = prefix

\* net/url.Parse as http.NewRequest uses it: a string holding an ASCII
\* control character is rejected.
ValidURL(u) == \A i \in 1..Len(u) : u[i] >= 32 /\ u[i] # 127

\* DER encoding of the inputs of decodeAIA (short-form lengths).
TLV(id, content) == <<id, Len(content)>> \o content

EncOID(arcs) ==
  <<40 * arcs[1] + arcs[2]>> \o [i \in 1..(Len(arcs) - 2) |-> arcs[i + 2]]

EncDesc(d) ==
  TLV(48, TLV(6, EncOID(d.method))
          \o TLV(d.Class * 64 + d.Tag, d.Bytes))

RECURSIVE EncDescs(_)
EncDescs(descs) ==
  IF descs = <<>> THEN <<>> ELSE EncDesc(Head(descs)) \o EncDescs(Tail(descs))

EncAIA(descs) == TLV(48, EncDescs(descs))

\* An access method that is neither CA-Issuers nor OCSP.
aiaOther == <<1, 3, 6, 1, 5, 5, 7, 48, 3>>

\* An AccessDescription: its method and the class, tag and content octets
\* of its location.
Desc(m, c, t, b) == [method |-> m, Class |-> c, Tag |-> t, Bytes |-> b]

(***************************************************************************)
(* Part 4.  Certificates, connection states and OCSP responses.            *)
(***************************************************************************)

\* Bounds of the model.
MaxReason == 11     \* revocation reason codes range over -1..MaxReason
MaxExts == 2        \* extensions of the certificate read from the file
MaxDescs == 2       \* AccessDescriptions of a decoded AIA extension

\* x509.Certificate: what main.go reads of it.
Cert(name, servers, exts) ==
  [name |-> name, OCSPServer |-> servers, Extensions |-> exts]

NoCert == Cert("", <<>>, <<>>)

OtherExtension == <<2, 5, 29, 15>>

\* The issuers that sign certificates and responses.
Issuers == {"CA1", "CA2"}

\* The bytes of an OCSP response, by what ocsp.ParseResponse finds in them:
\* whether they are DER of an OCSPResponse, the responseStatus, the issuer
\* the signature verifies under, the certStatus and the optional reason of
\* a revoked certStatus.  nil is the nil slice.
RespBytes(isNil, wf, rs, signer, status, has, code) ==
  [nil |-> isNil, wellFormed |-> wf, respStatus |-> rs, signer |-> signer,
   status |-> status, hasReason |-> has, reason |-> code]

NilBytes == RespBytes(TRUE, FALSE, "", "", "", FALSE, 0)

ReasonCodes == (0 - 1)..MaxReason

Responses ==
  {RespBytes(FALSE, FALSE, "", "", "", FALSE, 0),
   RespBytes(FALSE, TRUE, "tryLater", "", "", FALSE, 0)}
  \cup {RespBytes(FALSE, TRUE, "successful", sg, st, FALSE, 0) :
          sg \in Issuers, st \in {"Good", "Unknown", "Revoked"}}
  \cup {RespBytes(FALSE, TRUE, "successful", sg, "Revoked", TRUE, c) :
          sg \in Issuers, c \in ReasonCodes}

\* ocsp.ParseResponse(response, issuer): an error for bytes that do not
\* parse, for an unsuccessful responseStatus and for a signature that does
\* not verify under the issuer; otherwise the Response, whose
\* RevocationReason is an int that stays 0 unless a revoked certStatus
\* carries a reason.
OcspParseResponse(bytes, issuerCert) ==
  IF bytes.nil \/ ~bytes.wellFormed \/ bytes.respStatus # "successful"
     \/ bytes.signer # issuerCert.name
  THEN [ok |-> FALSE, Status |-> "", RevocationReason |-> 0]
  ELSE [ok |-> TRUE, Status |-> bytes.status,
        RevocationReason |-> IF bytes.status = "Revoked" /\ bytes.hasReason
                             THEN bytes.reason ELSE 0]

\* tls.ConnectionState of the response of http.Get; nil when the final
\* response did not come over TLS.
ConnState(isNil, chains, staple) ==
  [nil |-> isNil, VerifiedChains |-> chains, OCSPResponse |-> staple]

NoConn == ConnState(TRUE, <<>>, NilBytes)

\* The server certificates a connection presents.
ServerCerts ==
  {Cert("ee", sv, <<>>) : sv \in {<<>>, <<StrOcsp1>>, <<StrOcsp1, StrOcsp2>>}}

\* The first verified chain: the leaf alone when the leaf is itself a trust
\* anchor, else the leaf, its issuer and possibly a root above it.
Chains ==
  {<<ee>> : ee \in ServerCerts}
  \cup {<<ee, Cert("CA1", <<>>, <<>>)>> : ee \in ServerCerts}
  \cup {<<ee, Cert("CA1", <<>>, <<>>), Cert("Root", <<>>, <<>>)>> :
          ee \in ServerCerts}

ConnStates ==
  {NoConn}
  \cup {ConnState(FALSE, <<ch>>, st) :
          ch \in Chains, st \in Responses \cup {NilBytes}}

\* The values of an AIA extension in a certificate file.
FileAIAValues ==
  {EncAIA(<<>>),
   EncAIA(<<Desc(aiaIssuer, 2, 6, StrIssuer1)>>),
   EncAIA(<<Desc(aiaOCSP, 2, 6, StrOcsp1)>>),
   EncAIA(<<Desc(aiaIssuer, 2, 6, <<>>)>>),
   EncAIA(<<Desc(aiaIssuer, 0, 2, <<5>>)>>),
   <<48, 3, 48>>}

Extension(id, value) == [Id |-> id, Value |-> value]

FileExtensions ==
  {Extension(OtherExtension, <<3, 2, 5, 160>>)}
  \cup {Extension(authorityInfoAccess, v) : v \in FileAIAValues}

SeqsUpTo(S, n) == UNION {[1..k -> S] : k \in 0..n}

\* The certificates x509.ParseCertificate yields for the file.
FileCerts ==
  {Cert("ee", sv, exts) :
     sv \in {<<>>, <<StrOcsp1>>}, exts \in SeqsUpTo(FileExtensions, MaxExts)}

\* The certificates the AIA URL serves.
FetchedCerts == {Cert(n, <<>>, <<>>) : n \in Issuers}

(***************************************************************************)
(* Part 5.  The functions of main.go that compute without side effects.    *)
(***************************************************************************)

ErrParse == "error parsing response"
ErrPem == "pem: write failed"
ErrNoAIA == "No AIA url"
ErrNoConn == "no connection state"
ErrCreate == "error creating ocsp request"
ErrNewRequest == "error creating http post request"
ErrPost == "error sending post request"
ErrGet == "Get failed"
ErrReadAll == "read failed"
ErrParseCert == "x509: malformed certificate"
PanicIndex == "runtime error: index out of range"

\* The switch with the codes taken as contiguous, 7 not skipped.
reasonLabelContiguous(n) ==
  CASE n = 0 -> "Unspecified"
    [] n = 1 -> "KeyCompromise"
    [] n = 2 -> "CACompromise"
    [] n = 3 -> "AffiliationChanged"
    [] n = 4 -> "Superseded"
    [] n = 5 -> "CessationOfOperation"
    [] n = 6 -> "CertificateHold"
    [] n = 7 -> "RemoveFromCRL"
    [] n = 8 -> "PrivilegeWithdrawn"
    [] n = 9 -> "AACompromise"
    [] OTHER -> "unexpected value: " \o ToString(n)

\* The switch on resp.RevocationReason.
reasonLabel(n) ==
  CASE n = 0 -> "Unspecified"
    [] n = 1 -> "KeyCompromise"
    [] n = 2 -> "CACompromise"
    [] n = 3 -> "AffiliationChanged"
    [] n = 4 -> "Superseded"
    [] n = 5 -> "CessationOfOperation"
    [] n = 6 -> "CertificateHold"
    [] n = 8 -> "RemoveFromCRL"
    [] n = 9 -> "PrivilegeWithdrawn"
    [] n = 10 -> "AACompromise"
    [] OTHER -> "unexpected value: " \o ToString(n)

\* The if/else chain on resp.Status.
statusLine(st) ==
  IF st = "Good" THEN "Certificate Status Good."
  ELSE IF st = "Unknown" THEN "Certificate Status Unknown"
  ELSE "Certificate Status Revoked"

\* What one call of parseResponse returns and logs; "none" is a line that
\* was not logged.  stdoutOK: whether pem.Encode can write to os.Stdout.
Parsed(err, status, reason) == [err |-> err, status |-> status, reason |-> reason]

\* parseResponse with the error of ocsp.ParseResponse dropped.
parseResponseIgnoringError(response, issuerCert, dumpOn, stdoutOK) ==
  IF dumpOn /\ ~stdoutOK THEN Parsed(ErrPem, "none", "none")
  ELSE Parsed(ErrNone,
              statusLine(OcspParseResponse(response, issuerCert).Status),
              reasonLabel(OcspParseResponse(response, issuerCert).RevocationReason))

parseResponse(response, issuerCert, dumpOn, stdoutOK) ==
  IF dumpOn /\ ~stdoutOK THEN Parsed(ErrPem, "none", "none")
  ELSE LET resp == OcspParseResponse(response, issuerCert)
       IN IF ~resp.ok THEN Parsed(ErrParse, "none", "none")
          ELSE Parsed(ErrNone, statusLine(resp.Status),
                      reasonLabel(resp.RevocationReason))

\* The choice of ocspURL in manualCheck; ee.OCSPServer[0] panics on an
\* empty list.
chooseOCSPURL(respURL, eeCert) ==
  IF respURL # <<>> THEN [panic |-> FALSE, url |-> respURL]
  ELSE IF Len(eeCert.OCSPServer) = 0 THEN [panic |-> TRUE, url |-> <<>>]
  ELSE [panic |-> FALSE, url |-> eeCert.OCSPServer[1]]

\* grabServerCert and grabIssuerCert: VerifiedChains[0][0] and [0][1].
chainPanics(cs) ==
  \/ Len(cs.VerifiedChains) = 0
  \/ Len(cs.VerifiedChains[1]) < 2

grabServerCert(cs) == cs.VerifiedChains[1][1]
grabIssuerCert(cs) == cs.VerifiedChains[1][2]

\* The condition without the nostaple flag.
remoteCheckIgnoringFlag(staple, nostaple) == staple.nil

\* The condition of processURL under which the check is made manually.
remoteCheck(staple, nostaple) == staple.nil \/ nostaple

\* The loop of processFile over endEntity.Extensions: the error of the
\* first AIA extension that fails to decode, else the last non-empty URL.
AIAScan(err, found, url) == [err |-> err, found |-> found, url |-> url]

\* The test of the URL's length off by one.
aiaURLSetAlways(url) == Len(url) >= 0

aiaURLSet(url) == Len(url) > 0

RECURSIVE scanExtensions(_, _)
scanDecoded(exts, acc, r) ==
  IF r.err # ErrNone THEN AIAScan(r.err, FALSE, <<>>)
  ELSE IF aiaURLSet(r.url)
  THEN scanExtensions(Tail(exts), AIAScan(ErrNone, TRUE, r.url))
  ELSE scanExtensions(Tail(exts), acc)

scanExtensions(exts, acc) ==
  IF exts = <<>> THEN acc
  ELSE IF Head(exts).Id = authorityInfoAccess
  THEN scanDecoded(exts, acc, decodeAIA(Head(exts).Value))
  ELSE scanExtensions(Tail(exts), acc)

\* main with the error of processURL logged but not fatal.
fileRunsAfterURLFailure(err, certPath) == certPath # <<>>

\* main: whether the file scenario starts once processURL has returned err.
fileRunsAfterURL(err, certPath) == err = ErrNone /\ certPath # <<>>

(***************************************************************************)
(* Part 6.  The program as a state machine.                                *)
(***************************************************************************)

VARIABLES
  flags,      \* destURL, certPath, respURL, nostaple, dump
  pc,         \* the statement main has reached
  scenario,   \* the scenario running: "none", "url" or "file"
  connState,  \* processURL: resp.TLS
  ee,         \* the end-entity certificate (server, endEntity)
  issuer,     \* the issuer certificate (issuer, fetchedCert)
  ocspURL,    \* manualCheck: the responder URL
  aiaURL,     \* processFile: *aiaURL
  response,   \* the bytes handed to parseResponse
  parsed,     \* what parseResponse returned and logged
  urlPath,    \* processURL: "manual" (remote check) or "stapled"
  netOps,     \* the network operations attempted, in order
  stdout,     \* the PEM blocks written to os.Stdout
  outcome,    \* per scenario: notrun, running, verdict, error, panic
  errMsg,     \* per scenario: the error it returned
  exit,       \* the process: its exit code and last message
  aiaIn,      \* decodeAIA alone: the AccessDescriptions encoded
  aiaOut      \* decodeAIA alone: the result

vars == <<flags, pc, scenario, connState, ee, issuer, ocspURL, aiaURL,
          response, parsed, urlPath, netOps, stdout, outcome, errMsg, exit,
          aiaIn, aiaOut>>

locals == <<connState, ee, issuer, ocspURL, aiaURL, response, parsed, urlPath>>
aiaVars == <<aiaIn, aiaOut>>

Scenarios == {"url", "file"}

Flags ==
  [destURL : {<<>>, StrHttpsURL, StrHttpURL},
   certPath : {<<>>, StrPath},
   respURL : {<<>>, StrResponder, StrCtl},
   nostaple : BOOLEAN,
   dump : BOOLEAN]

NotParsed == Parsed("pending", "none", "none")
AIAPending == AIAResult(<<>>, "pending")
Running == [code |-> "running", msg |-> ""]

NetOp(op) == [op |-> op, scenario |-> scenario]

InitLocals ==
  /\ connState = NoConn
  /\ ee = NoCert
  /\ issuer = NoCert
  /\ ocspURL = <<>>
  /\ aiaURL = <<>>
  /\ response = NilBytes
  /\ parsed = NotParsed
  /\ urlPath = "none"

InitProcess ==
  /\ scenario = "none"
  /\ InitLocals
  /\ netOps = <<>>
  /\ stdout = <<>>
  /\ outcome = [s \in Scenarios |-> "notrun"]
  /\ errMsg = [s \in Scenarios |-> "unset"]
  /\ exit = Running

Init ==
  /\ flags \in Flags
  /\ pc = "main"
  /\ InitProcess
  /\ aiaIn = [descs |-> <<>>, mangle |-> "none"]
  /\ aiaOut = AIAPending

\* How an action leaves the control state.
Goto(p) == pc' = p /\ UNCHANGED <<scenario, outcome, errMsg, exit>>

Enter(s, first) ==
  /\ pc' = first
  /\ scenario' = s
  /\ outcome' = [outcome EXCEPT ![s] = "running"]
  /\ UNCHANGED <<errMsg, exit>>

Return(e) ==
  /\ pc' = "return"
  /\ outcome' = [outcome EXCEPT
                   ![scenario] = IF e = ErrNone THEN "verdict" ELSE "error"]
  /\ errMsg' = [errMsg EXCEPT ![scenario] = e]
  /\ UNCHANGED <<scenario, exit>>

\* A run-time panic: the goroutine trace is printed and the process exits 2.
Panic ==
  /\ pc' = "exit"
  /\ outcome' = [outcome EXCEPT ![scenario] = "panic"]
  /\ errMsg' = [errMsg EXCEPT ![scenario] = PanicIndex]
  /\ exit' = [code |-> "2", msg |-> PanicIndex]
  /\ UNCHANGED scenario

\* log.Fatalf in main: the message is logged and the process exits 1.
Stop(code, msg) ==
  /\ pc' = "exit"
  /\ exit' = [code |-> code, msg |-> msg]
  /\ UNCHANGED <<scenario, outcome, errMsg>>

\* log.Fatalf inside processFile.
FatalIn(msg) ==
  /\ pc' = "exit"
  /\ outcome' = [outcome EXCEPT ![scenario] = "error"]
  /\ errMsg' = [errMsg EXCEPT ![scenario] = msg]
  /\ exit' = [code |-> "1", msg |-> msg]
  /\ UNCHANGED scenario

\* main, up to the call of the first scenario.
Main ==
  /\ pc = "main"
  /\ IF flags.certPath = <<>> /\ flags.destURL = <<>>
     THEN Stop("1", "must provide a url or cert")
     ELSE IF flags.destURL # <<>>
     THEN IF ~HasPrefix(flags.destURL, StrHttps)
          THEN Stop("1", "must provide a https url")
          ELSE Enter("url", "processURL")
     ELSE Enter("file", "processFile")
  /\ UNCHANGED <<flags, locals, netOps, stdout, aiaVars>>

\* processURL: http.Get(*destURL).
ProcessURLGet ==
  /\ pc = "processURL"
  /\ netOps' = Append(netOps, NetOp("GET"))
  /\ \/ Return(ErrGet) /\ UNCHANGED connState
     \/ \E cs \in ConnStates : connState' = cs /\ Goto("urlConn")
  /\ UNCHANGED <<flags, ee, issuer, ocspURL, aiaURL, response, parsed,
                 urlPath, stdout, aiaVars>>

\* processURL: from resp.TLS to the choice of the check.
ProcessURLDecide ==
  /\ pc = "urlConn"
  /\ IF connState.nil
     THEN Return(ErrNoConn) /\ UNCHANGED <<ee, issuer, urlPath>>
     ELSE IF chainPanics(connState)
     THEN Panic /\ UNCHANGED <<ee, issuer, urlPath>>
     ELSE /\ ee' = grabServerCert(connState)
          /\ issuer' = grabIssuerCert(connState)
          /\ IF remoteCheck(connState.OCSPResponse, flags.nostaple)
             THEN urlPath' = "manual" /\ Goto("manualCheck")
             ELSE urlPath' = "stapled" /\ Goto("stapledCheck")
  /\ UNCHANGED <<flags, connState, ocspURL, aiaURL, response, parsed,
                 netOps, stdout, aiaVars>>

\* stapledCheck, up to its call of parseResponse.
StapledCheck ==
  /\ pc = "stapledCheck"
  /\ response' = connState.OCSPResponse
  /\ Goto("parseResponse")
  /\ UNCHANGED <<flags, connState, ee, issuer, ocspURL, aiaURL, parsed,
                 urlPath, netOps, stdout, aiaVars>>

\* manualCheck: the responder URL, ocsp.CreateRequest and the dump.
ManualCheckBuild ==
  /\ pc = "manualCheck"
  /\ LET c == chooseOCSPURL(flags.respURL, ee)
     IN IF c.panic
        THEN Panic /\ UNCHANGED <<ocspURL, stdout>>
        ELSE /\ ocspURL' = c.url
             /\ \E createOK \in BOOLEAN, stdoutOK \in BOOLEAN :
                  IF ~createOK
                  THEN Return(ErrCreate) /\ UNCHANGED stdout
                  ELSE IF flags.dump /\ ~stdoutOK
                  THEN Return(ErrPem) /\ UNCHANGED stdout
                  ELSE /\ stdout' = IF flags.dump
                                    THEN Append(stdout, "OCSP Request")
                                    ELSE stdout
                       /\ Goto("manualPost")
  /\ UNCHANGED <<flags, connState, ee, issuer, aiaURL, response, parsed,
                 urlPath, netOps, aiaVars>>

\* manualCheck: http.NewRequest, client.Do and the copy of the body.
ManualCheckPost ==
  /\ pc = "manualPost"
  /\ IF ~ValidURL(ocspURL)
     THEN Return(ErrNewRequest) /\ UNCHANGED <<netOps, response>>
     ELSE /\ netOps' = Append(netOps, NetOp("POST"))
          /\ \/ Return(ErrPost) /\ UNCHANGED response
             \/ \E r \in Responses : response' = r /\ Goto("parseResponse")
  /\ UNCHANGED <<flags, connState, ee, issuer, ocspURL, aiaURL, parsed,
                 urlPath, stdout, aiaVars>>

\* parseResponse.
ParseResponse ==
  /\ pc = "parseResponse"
  /\ \E stdoutOK \in BOOLEAN :
       LET r == parseResponse(response, issuer, flags.dump, stdoutOK)
       IN /\ parsed' = r
          /\ stdout' = IF flags.dump /\ stdoutOK
                       THEN Append(stdout, "OCSP Response") ELSE stdout
          /\ Return(r.err)
  /\ UNCHANGED <<flags, connState, ee, issuer, ocspURL, aiaURL, response,
                 urlPath, netOps, aiaVars>>

ResetLocals ==
  /\ connState' = NoConn
  /\ ee' = NoCert
  /\ issuer' = NoCert
  /\ ocspURL' = <<>>
  /\ aiaURL' = <<>>
  /\ response' = NilBytes
  /\ parsed' = NotParsed
  /\ urlPath' = "none"

\* main: after processURL has returned.  The locals of the scenario are
\* gone.
MainAfterURL ==
  /\ pc = "return"
  /\ scenario = "url"
  /\ IF fileRunsAfterURL(errMsg["url"], flags.certPath)
     THEN Enter("file", "processFile")
     ELSE IF errMsg["url"] # ErrNone
     THEN Stop("1", "Error processing URL")
     ELSE Stop("0", "")
  /\ ResetLocals
  /\ UNCHANGED <<flags, netOps, stdout, aiaVars>>

\* processFile: read, PEM-decode and parse the certificate.
ProcessFileRead ==
  /\ pc = "processFile"
  /\ \/ \E e \in {"Error reading file", "failed to parse certificate PEM",
                  "failed to parse certificate"} :
          FatalIn(e) /\ UNCHANGED ee
     \/ \E c \in FileCerts : ee' = c /\ Goto("fileAIA")
  /\ UNCHANGED <<flags, connState, issuer, ocspURL, aiaURL, response, parsed,
                 urlPath, netOps, stdout, aiaVars>>

\* processFile: the scan of the extensions for the issuer URL.
ProcessFileAIA ==
  /\ pc = "fileAIA"
  /\ LET r == scanExtensions(ee.Extensions, AIAScan(ErrNone, FALSE, <<>>))
     IN IF r.err # ErrNone THEN Return(r.err) /\ UNCHANGED aiaURL
        ELSE IF ~r.found THEN Return(ErrNoAIA) /\ UNCHANGED aiaURL
        ELSE aiaURL' = r.url /\ Goto("fileFetch")
  /\ UNCHANGED <<flags, connState, ee, issuer, ocspURL, response, parsed,
                 urlPath, netOps, stdout, aiaVars>>

\* processFile: fetch and parse the issuer certificate, then manualCheck.
ProcessFileFetch ==
  /\ pc = "fileFetch"
  /\ IF ~ValidURL(aiaURL)
     THEN Return(ErrGet) /\ UNCHANGED <<netOps, issuer>>
     ELSE /\ netOps' = Append(netOps, NetOp("GET_AIA"))
          /\ \/ \E e \in {ErrGet, ErrReadAll, ErrParseCert} :
                  Return(e) /\ UNCHANGED issuer
             \/ \E c \in FetchedCerts : issuer' = c /\ Goto("manualCheck")
  /\ UNCHANGED <<flags, connState, ee, ocspURL, aiaURL, response, parsed,
                 urlPath, stdout, aiaVars>>

\* main: after processFile has returned.
MainAfterFile ==
  /\ pc = "return"
  /\ scenario = "file"
  /\ IF errMsg["file"] # ErrNone
     THEN Stop("1", "Error processing file")
     ELSE Stop("0", "")
  /\ UNCHANGED <<flags, locals, netOps, stdout, aiaVars>>

Next ==
  \/ Main
  \/ ProcessURLGet
  \/ ProcessURLDecide
  \/ StapledCheck
  \/ ManualCheckBuild
  \/ ManualCheckPost
  \/ ParseResponse
  \/ MainAfterURL
  \/ ProcessFileRead
  \/ ProcessFileAIA
  \/ ProcessFileFetch
  \/ MainAfterFile

Spec == Init /\ [][Next]_vars

(***************************************************************************)
(* Part 7.  decodeAIA on its own, over encoded AccessDescriptions.         *)
(***************************************************************************)

\* Locations: context-specific and universal, tag 6 and tag 2.
LocationForms == {<<2, 6>>, <<0, 6>>, <<0, 2>>, <<2, 2>>}

Descs ==
  {Desc(m, f[1], f[2], b) :
     m \in {aiaIssuer, aiaOCSP, aiaOther},
     f \in LocationForms,
     b \in {<<>>, StrIssuer1, StrIssuer2}}

\* The extension octets: the encoding, or the encoding damaged.
Mangle(bytes, how) ==
  CASE how = "none" -> bytes
    [] how = "trailing" -> bytes \o <<0>>
    [] how = "truncated" -> SubSeq(bytes, 1, Len(bytes) - 1)
    [] how = "set" -> <<49>> \o Tail(bytes)

AIAInputs ==
  [descs : SeqsUpTo(Descs, MaxDescs),
   mangle : {"none", "trailing", "truncated", "set"}]

aiaBytes(in) == Mangle(EncAIA(in.descs), in.mangle)

InitAIA ==
  /\ flags = [destURL |-> <<>>, certPath |-> <<>>, respURL |-> <<>>,
              nostaple |-> FALSE, dump |-> FALSE]
  /\ pc = "decodeAIA"
  /\ InitProcess
  /\ aiaIn \in AIAInputs
  /\ aiaOut = AIAPending

DecodeAIA ==
  /\ pc = "decodeAIA"
  /\ aiaOut' = decodeAIA(aiaBytes(aiaIn))
  /\ pc' = "decoded"
  /\ UNCHANGED <<flags, scenario, locals, netOps, stdout, outcome, errMsg,
                 exit, aiaIn>>

NextAIA == DecodeAIA

SpecAIA == InitAIA /\ [][NextAIA]_vars

(***************************************************************************)
(* Part 8.  The properties.                                                *)
(***************************************************************************)

\* The operations of one kind a scenario has attempted on the network.
OpsOf(s, op) ==
  {i \in DOMAIN netOps : netOps[i].scenario = s /\ netOps[i].op = op}

\* C1: in processURL the stapled path is taken exactly when a staple is
\* present and nostaple is not set; on the stapled path no OCSP POST is
\* made; with nostaple set or no staple the manual path is taken, and a
\* response it hands to parseResponse came from its one POST.
C1_StapledIffStapleAndNoBypass ==
  (scenario = "url" /\ urlPath # "none") =>
     /\ (urlPath = "stapled") <=>
          (~connState.OCSPResponse.nil /\ ~flags.nostaple)
     /\ (urlPath = "manual") <=>
          (connState.OCSPResponse.nil \/ flags.nostaple)
     /\ urlPath = "stapled" =>
          /\ OpsOf("url", "POST") = {}
          /\ pc \notin {"manualCheck", "manualPost"}
     /\ urlPath = "manual" =>
          /\ pc # "stapledCheck"
          /\ pc = "parseResponse" => Cardinality(OpsOf("url", "POST")) = 1
          /\ parsed # NotParsed => Cardinality(OpsOf("url", "POST")) = 1

C1_Witness ==
  /\ scenario = "url"
  /\ pc = "return"
  /\ urlPath = "stapled"
  /\ outcome["url"] = "verdict"
  /\ OpsOf("url", "POST") = {}

\* C2 (as claimed): manualCheck with no responder override and an empty
\* OCSPServer list ends the scenario in a reported error, and no POST is
\* made.
C2_EmptyServerListIsError ==
  (/\ scenario \in Scenarios
   /\ issuer.name # ""
   /\ scenario = "url" => urlPath = "manual"
   /\ pc # "manualCheck"
   /\ flags.respURL = <<>>
   /\ Len(ee.OCSPServer) = 0) =>
     /\ outcome[scenario] = "error"
     /\ OpsOf(scenario, "POST") = {}

\* C3 (as claimed): a verified chain without both the end-entity and its
\* issuer ends the live-connection scenario in a reported error, and no
\* check is started.
C3_ShortChainIsError ==
  (/\ scenario = "url"
   /\ ~connState.nil
   /\ pc # "urlConn"
   /\ chainPanics(connState)) =>
     /\ outcome["url"] = "error"
     /\ urlPath = "none"

\* C4: in processFile, a parsed certificate with no AIA extension, or whose
\* AIA extensions all decode to an empty URL, ends the scenario in the
\* no-AIA-URL error, and the scenario performs no network operation.
C4_NoAIANoNetwork ==
  (/\ scenario = "file"
   /\ ee.name # ""
   /\ pc # "fileAIA"
   /\ \A i \in DOMAIN ee.Extensions :
        ee.Extensions[i].Id = authorityInfoAccess =>
          decodeAIA(ee.Extensions[i].Value) = AIAResult(<<>>, ErrNone)) =>
     /\ pc \in {"return", "exit"}
     /\ outcome["file"] = "error"
     /\ errMsg["file"] = ErrNoAIA
     /\ \A i \in DOMAIN netOps : netOps[i].scenario # "file"

C4_Witness ==
  /\ scenario = "file"
  /\ pc = "return"
  /\ errMsg["file"] = ErrNoAIA
  /\ \E i \in DOMAIN ee.Extensions :
       /\ ee.Extensions[i].Id = authorityInfoAccess
       /\ decodeAIA(ee.Extensions[i].Value) = AIAResult(<<>>, ErrNone)

BothSupplied ==
  flags.certPath # <<>> /\ HasPrefix(flags.destURL, StrHttps)

C6_InvalidResponseIsError ==
  (/\ parsed # NotParsed
   /\ \/ response.nil
      \/ ~response.wellFormed
      \/ response.respStatus # "successful"
      \/ response.signer # issuer.name) =>
     /\ parsed.err # ErrNone
     /\ parsed.status = "none"
     /\ parsed.reason = "none"
     /\ outcome[scenario] = "error"

C6_Witness ==
  /\ urlPath = "stapled"
  /\ parsed.err = ErrParse
  /\ response.wellFormed
  /\ response.respStatus = "successful"
  /\ response.signer # issuer.name
  /\ outcome["url"] = "error"

\* C7 (as claimed): for a validated Good response, which supplies no
\* revocation reason, parseResponse reports no reason.
C7_GoodHasNoReason ==
  (parsed.err = ErrNone /\ response.status = "Good") =>
     parsed.reason = "none"

\* The labels of the revocation reasons.
CanonicalLabels ==
  0 :> "Unspecified" @@ 1 :> "KeyCompromise" @@ 2 :> "CACompromise"
  @@ 3 :> "AffiliationChanged" @@ 4 :> "Superseded"
  @@ 5 :> "CessationOfOperation" @@ 6 :> "CertificateHold"
  @@ 8 :> "RemoveFromCRL" @@ 9 :> "PrivilegeWithdrawn"
  @@ 10 :> "AACompromise"

\* C8: for a validated response that carries a numeric revocation reason,
\* parseResponse logs the canonical label of the code, or "unexpected
\* value: <n>" for a code outside the table (7 included), and returns no
\* error.
C8_ReasonLabels ==
  (/\ parsed # NotParsed
   /\ parsed.err # ErrPem
   /\ ~response.nil
   /\ response.wellFormed
   /\ response.respStatus = "successful"
   /\ response.signer = issuer.name
   /\ response.status = "Revoked"
   /\ response.hasReason) =>
     /\ parsed.err = ErrNone
     /\ outcome[scenario] = "verdict"
     /\ parsed.status = "Certificate Status Revoked"
     /\ parsed.reason =
          IF response.reason \in DOMAIN CanonicalLabels
          THEN CanonicalLabels[response.reason]
          ELSE "unexpected value: " \o ToString(response.reason)

C8_Witness ==
  /\ parsed.err = ErrNone
  /\ response.status = "Revoked"
  /\ response.hasReason
  /\ response.reason = 7
  /\ parsed.reason = "unexpected value: 7"
  /\ outcome[scenario] = "verdict"

\* C9 (as claimed): for a well-formed AIA sequence the result of decodeAIA
\* is decided by the first CA-Issuers description: its octets when its
\* location is a context-specific tag-6 URI, the unknown-type error when
\* its location has any other form, the empty URL and no error when there
\* is no such description.
C9_FirstIssuerDecides ==
  (pc = "decoded" /\ aiaIn.mangle = "none") =>
     LET ds == aiaIn.descs
         idx == {i \in DOMAIN ds : ds[i].method = aiaIssuer}
         first == CHOOSE i \in idx : \A j \in idx : i <= j
     IN IF idx = {} THEN aiaOut = AIAResult(<<>>, ErrNone)
        ELSE IF ds[first].Class = 2 /\ ds[first].Tag = 6
        THEN aiaOut = AIAResult(ds[first].Bytes, ErrNone)
        ELSE aiaOut = AIAResult(<<>>, ErrUnknownType)

\* C10 (as claimed): every scenario ends in a Verdict or one reported
\* error, each network operation is attempted at most once per scenario,
\* and a scenario that failed reports no Verdict.
C10_OneOutcomeNoRetry ==
  \A s \in Scenarios :
     /\ outcome[s] \in {"notrun", "running", "verdict", "error"}
     /\ pc = "exit" => outcome[s] # "running"
     /\ \A op \in {"GET", "GET_AIA", "POST"} : Cardinality(OpsOf(s, op)) <= 1
     /\ (s = scenario /\ outcome[s] = "error") => parsed.status = "none"

====
